---- MODULE Spec2Model ----
(***************************************************************************)
(* ServiceNow Monitor: the source adapters (SEC filings, press releases,   *)
(* news articles), the summarizer, the secrets lookup, the command line    *)
(* and the orchestrator ServiceNowMonitor that fetches and enriches the    *)
(* three sources in turn.                                                  *)
(*                                                                         *)
(* Time is counted in ticks, TicksPerDay ticks to a calendar day.  A       *)
(* datetime is a tick count; a "%Y-%m-%d" date string is the day number    *)
(* (ticks \div TicksPerDay), which orders as the strings do.  An optional  *)
(* value (Python None / a value) is the empty set or a singleton.          *)
(***************************************************************************)
EXTENDS Integers, Sequences, FiniteSets, TLC

VARIABLES
    now,        \* datetime.now(), in ticks
    call,       \* adapter harness: the adapter call made and what it returned
    pc,         \* ServiceNowMonitor: position of run()
    summarizer, \* self.summarizer is not None
    counts,     \* config claude.summarize_{filings,releases,articles}_count
    enabled,    \* config sources.<source>.enabled
    newsKey,    \* a NewsAPI key was resolved
    windows,    \* run(): the resolved day counts per source
    adapterOut, \* what each source's adapter returned in this run
    cur,        \* the list the running fetch_* method holds (filings/releases/articles)
    i,          \* enumerate index of the enrichment loop (1-based)
    results,    \* self.results
    raised,     \* exception propagating out of run(), "none" when there is none
    raisedIn,   \* the fetch_* method and step the exception left from
    fetchLog,   \* content retrievals attempted: <<source, position, outcome>>
    sumLog,     \* summarizer.summarize calls made: <<source, position>>
    calls,      \* the external calls run() has made, in order
    started,    \* datetime.now() when the latest run() was called
    runs,       \* number of run() calls made on the monitor
    cached_data, \* web_app: the module-level cache
    req         \* web_app: the requests being served, each in its own thread

adapterVars == <<call>>
monitorVars == <<pc, summarizer, counts, enabled, newsKey, windows, adapterOut, cur, i,
                 results, raised, raisedIn, fetchLog, sumLog, calls, started, runs>>
webVars == <<cached_data, req>>
vars == <<now, call, pc, summarizer, counts, enabled, newsKey, windows, adapterOut,
          cur, i,
          results, raised, raisedIn, fetchLog, sumLog, calls, started, runs,
          cached_data, req>>

(***************************************************************************)
(* Bounds of the model.                                                    *)
(***************************************************************************)
TicksPerDay == 2
Today == 100
MaxEntries == 3
MaxPipeEntries == 2
MaxCount == 2

Nows == {Today * TicksPerDay + t : t \in 0 .. TicksPerDay - 1}

None == {}
Some(x) == {x}
Value(opt) == CHOOSE x \in opt : TRUE

Min(a, b) == IF a <= b THEN a ELSE b

\* seq[:n] for n >= 0
Take(seq, n) == SubSeq(seq, 1, Min(n, Len(seq)))

(***************************************************************************)
(* datetime helpers                                                        *)
(***************************************************************************)
\* timedelta(days=d)
timedelta(d) == d * TicksPerDay

\* datetime.strftime("%Y-%m-%d"): the time of day is dropped
strftime(t) == t \div TicksPerDay

\* datetime.strptime(s, "%Y-%m-%d"): midnight of that day
strptime(day) == day * TicksPerDay

\* a date string of the upstream index: well-formed or not
DateStr(day) == [iso |-> TRUE, day |-> day]
Garbled == [iso |-> FALSE, day |-> 0]

Returned(v) == [raised |-> "none", value |-> v]
Raise(e) == [raised |-> e, value |-> <<>>]

(***************************************************************************)
(* SECEdgarFetcher                                                         *)
(***************************************************************************)
SECEdgarFetcherMethods ==
    {"_format_cik", "_make_request", "get_recent_filings", "get_filing_details"}

\* if filing_date < cutoff_date: continue
FilingTooOld_NoCutoff(filing_date, cutoff_date) == FALSE
FilingTooOld(filing_date, cutoff_date) == filing_date < cutoff_date

\* the body of "for i in range(len(form_types))", from entry k on
RECURSIVE FilingsLoop(_, _, _, _, _)
FilingsLoop(recent, filing_types, cutoff_date, k, filings) ==
    IF k > Len(recent.form) THEN Returned(filings)
    ELSE IF k > Len(recent.filingDate) THEN Raise("IndexError")
    ELSE IF recent.form[k] \notin filing_types
        THEN FilingsLoop(recent, filing_types, cutoff_date, k + 1, filings)
    ELSE IF ~recent.filingDate[k].iso THEN Raise("ValueError")
    ELSE IF FilingTooOld(strptime(recent.filingDate[k].day), cutoff_date)
        THEN FilingsLoop(recent, filing_types, cutoff_date, k + 1, filings)
    ELSE IF k > Len(recent.accessionNumber) \/ k > Len(recent.primaryDocument)
        THEN Raise("IndexError")
    ELSE FilingsLoop(recent, filing_types, cutoff_date, k + 1,
            Append(filings,
                [form_type |-> recent.form[k],
                 filing_date |-> recent.filingDate[k].day,
                 accession_number |-> recent.accessionNumber[k],
                 filing_url |-> <<recent.accessionNumber[k], recent.primaryDocument[k]>>]))

\* data: None when _make_request failed, else the "recent" parallel arrays
get_recent_filings(data, filing_types, days_back, t) ==
    IF data = None THEN Returned(<<>>)
    ELSE FilingsLoop(Value(data), filing_types, t - timedelta(days_back), 1, <<>>)

(***************************************************************************)
(* PressReleaseFetcher                                                     *)
(***************************************************************************)
PressReleaseFetcherMethods_WithContent ==
    {"fetch_from_businesswire", "fetch_from_servicenow_ir", "get_recent_press_releases",
     "fetch_press_release_content"}
PressReleaseFetcherMethods ==
    {"fetch_from_businesswire", "fetch_from_servicenow_ir", "get_recent_press_releases"}

EarningsTitles == {"ServiceNow Q3 Earnings"}
Titles == {"ServiceNow Announces X"} \cup EarningsTitles

\* any(keyword in title_lower for keyword in [...])
Category(title) == IF title \in EarningsTitles THEN "earnings" ELSE "general"

\* if pub_date < cutoff_date: continue
ReleaseTooOld(pub_date, cutoff_date) == pub_date < cutoff_date

\* the body of "for entry in feed.entries", from entry k on
RECURSIVE BusinessWireLoop(_, _, _, _)
BusinessWireLoop(entries, cutoff_date, k, press_releases) ==
    IF k > Len(entries) THEN press_releases
    ELSE IF entries[k].published_parsed = None
        THEN BusinessWireLoop(entries, cutoff_date, k + 1, press_releases)
    ELSE IF ReleaseTooOld(Value(entries[k].published_parsed), cutoff_date)
        THEN BusinessWireLoop(entries, cutoff_date, k + 1, press_releases)
    ELSE BusinessWireLoop(entries, cutoff_date, k + 1,
            Append(press_releases,
                [title |-> entries[k].title,
                 date |-> strftime(Value(entries[k].published_parsed)),
                 url |-> entries[k].link,
                 summary |-> entries[k].summary,
                 source |-> "Business Wire",
                 category |-> Category(entries[k].title)]))

\* feed: None when feedparser.parse raised, else feed.entries
fetch_from_businesswire(feed, days_back, t) ==
    IF feed = None THEN <<>>
    ELSE BusinessWireLoop(Value(feed), t - timedelta(days_back), 1, <<>>)

\* "Remove duplicates based on title"
Unique_KeepAll(all_releases, seen_titles, unique_releases) == all_releases

RECURSIVE Unique(_, _, _)
Unique(all_releases, seen_titles, unique_releases) ==
    IF all_releases = <<>> THEN unique_releases
    ELSE LET release == Head(all_releases) IN
         IF release.title \notin seen_titles
         THEN Unique(Tail(all_releases), seen_titles \cup {release.title},
                     Append(unique_releases, release))
         ELSE Unique(Tail(all_releases), seen_titles, unique_releases)

\* insertion of x into a list sorted newest first, after every element at least as new
RECURSIVE InsertDesc(_, _)
InsertDesc(sorted, x) ==
    IF sorted = <<>> THEN <<x>>
    ELSE IF Head(sorted).date >= x.date THEN <<Head(sorted)>> \o InsertDesc(Tail(sorted), x)
    ELSE <<x>> \o sorted

\* list.sort(key=lambda x: x["date"], reverse=True): stable, newest first
RECURSIVE SortByDateDesc(_)
SortByDateDesc(releases) ==
    IF releases = <<>> THEN <<>>
    ELSE InsertDesc(SortByDateDesc(SubSeq(releases, 1, Len(releases) - 1)),
                    releases[Len(releases)])

\* all_releases: the Business Wire entries (the IR page is not fetched)
merged_releases(feed, days_back, t) == fetch_from_businesswire(feed, days_back, t)

get_recent_press_releases_SortFirst(feed, days_back, t) ==
    Returned(Unique(SortByDateDesc(merged_releases(feed, days_back, t)), {}, <<>>))

get_recent_press_releases(feed, days_back, t) ==
    Returned(SortByDateDesc(Unique(merged_releases(feed, days_back, t), {}, <<>>)))

(***************************************************************************)
(* NewsArticleFetcher                                                      *)
(***************************************************************************)
NewsArticleFetcherMethods == {"get_recent_articles", "fetch_article_content"}

\* a provider publishedAt value:
\*   kind "iso"      an ISO-8601 timestamp, at tick t
\*   kind "prefixed" not ISO-8601, but its first 10 characters are the date of tick t
\*   kind "junk"     not ISO-8601, its first 10 characters no date
\*   kind "empty"    the empty string;  kind "null"  JSON null
PublishedAt(kind, t) == [kind |-> kind, t |-> t]

\* formatted["date"]: the try/except of the date parse
ArticleDate(published_at) ==
    CASE published_at.kind = "iso" ->
            [text |-> "date", day |-> strftime(published_at.t)]
      [] published_at.kind = "prefixed" ->
            [text |-> "date", day |-> strftime(published_at.t)]
      [] published_at.kind = "junk" -> [text |-> "junk", day |-> 0]
      [] OTHER -> [text |-> "", day |-> 0]

Formatted_WithSummary(article) ==
    [title |-> article.title,
     description |-> article.description,
     content |-> article.content,
     url |-> article.url,
     source |-> Value(article.source),
     published_at |-> article.publishedAt,
     date |-> ArticleDate(article.publishedAt),
     summary |-> article.description]
Formatted(article) ==
    [title |-> article.title,
     description |-> article.description,
     content |-> article.content,
     url |-> article.url,
     source |-> Value(article.source),
     published_at |-> article.publishedAt,
     date |-> ArticleDate(article.publishedAt)]

\* the articles the adapter keeps of the provider's list: all of them
KeptArticles(articles, days_back, t) == articles

\* response: [error, status, articles]; error is the requests exception, if any.
\* An article whose "source" is JSON null: article.get("source", {}) is None, and
\* None.get raises AttributeError, which "except RequestException" does not catch.
get_recent_articles(api_key, response, days_back, t) ==
    IF ~api_key THEN Returned(<<>>)
    ELSE IF response.error THEN Returned(<<>>)
    ELSE IF response.status # "ok" THEN Returned(<<>>)
    ELSE LET articles == KeptArticles(response.articles, days_back, t) IN
         IF \E k \in 1 .. Len(articles) : articles[k].source = None
         THEN Raise("AttributeError")
         ELSE Returned([k \in 1 .. Len(articles) |-> Formatted(articles[k])])

(***************************************************************************)
(* Strings the summarizer works on: a str is the sequence of its           *)
(* characters.                                                             *)
(***************************************************************************)
LowerCase == <<"a", "b", "c", "d", "e", "f", "g", "h", "i", "j", "k", "l", "m",
               "n", "o", "p", "q", "r", "s", "t", "u", "v", "w", "x", "y", "z">>
UpperCase == <<"A", "B", "C", "D", "E", "F", "G", "H", "I", "J", "K", "L", "M",
               "N", "O", "P", "Q", "R", "S", "T", "U", "V", "W", "X", "Y", "Z">>

\* str.upper()
upper(s) ==
    [k \in 1 .. Len(s) |->
        IF \E j \in 1 .. Len(LowerCase) : LowerCase[j] = s[k]
        THEN UpperCase[CHOOSE j \in 1 .. Len(LowerCase) : LowerCase[j] = s[k]]
        ELSE s[k]]

\* str.replace(old, new) for one-character old and new
replace(s, old, new) == [k \in 1 .. Len(s) |-> IF s[k] = old THEN new ELSE s[k]]

\* "sub in s"
Contains(sub, s) ==
    \E a \in 0 .. Len(s) - Len(sub) : SubSeq(s, a + 1, a + Len(sub)) = sub

\* the characters of the string literals of the source
Chars(str) ==
    CASE str = "" -> <<>>
      [] str = "d" -> <<"d">>
      [] str = "c" -> <<"c">>
      [] str = "4" -> <<"4">>
      [] str = "10-K" -> <<"1", "0", "-", "K">>
      [] str = "10_K" -> <<"1", "0", "_", "K">>
      [] str = "10-Q" -> <<"1", "0", "-", "Q">>
      [] str = "10_Q" -> <<"1", "0", "_", "Q">>
      [] str = "8-K" -> <<"8", "-", "K">>
      [] str = "8_K" -> <<"8", "_", "K">>
      [] str = "EARNING" -> <<"E", "A", "R", "N", "I", "N", "G">>
      [] str = "PRESS" -> <<"P", "R", "E", "S", "S">>
      [] str = "RELEASE" -> <<"R", "E", "L", "E", "A", "S", "E">>
      [] str = "earnings" -> <<"e", "a", "r", "n", "i", "n", "g", "s">>
      [] str = "press_release" ->
            <<"p", "r", "e", "s", "s", "_", "r", "e", "l", "e", "a", "s", "e">>
      [] str = "general" -> <<"g", "e", "n", "e", "r", "a", "l">>
      [] str = "\n\n" -> <<"\n", "\n">>
      [] str = "\n\n[Content truncated...]" ->
            <<"\n", "\n", "[", "C", "o", "n", "t", "e", "n", "t", " ",
              "t", "r", "u", "n", "c", "a", "t", "e", "d", ".", ".", ".", "]">>

(***************************************************************************)
(* ClaudeSummarizer                                                        *)
(***************************************************************************)
\* the keys of PROMPTS
PROMPTS == {"10-K", "10-Q", "8-K", "press_release", "earnings", "general"}

_get_prompt_template_PressFirst(content_type) ==
    LET normalized == replace(upper(content_type), "-", "_") IN
    IF normalized \in {Chars("10-K"), Chars("10_K")} THEN "10-K"
    ELSE IF normalized \in {Chars("10-Q"), Chars("10_Q")} THEN "10-Q"
    ELSE IF normalized \in {Chars("8-K"), Chars("8_K")} THEN "8-K"
    ELSE IF Contains(Chars("PRESS"), normalized) \/ Contains(Chars("RELEASE"), normalized)
        THEN "press_release"
    ELSE IF Contains(Chars("EARNING"), normalized) THEN "earnings"
    ELSE "general"

\* the key of PROMPTS whose template is returned
_get_prompt_template(content_type) ==
    LET normalized == replace(upper(content_type), "-", "_") IN
    IF normalized \in {Chars("10-K"), Chars("10_K")} THEN "10-K"
    ELSE IF normalized \in {Chars("10-Q"), Chars("10_Q")} THEN "10-Q"
    ELSE IF normalized \in {Chars("8-K"), Chars("8_K")} THEN "8-K"
    ELSE IF Contains(Chars("EARNING"), normalized) THEN "earnings"
    ELSE IF Contains(Chars("PRESS"), normalized) \/ Contains(Chars("RELEASE"), normalized)
        THEN "press_release"
    ELSE "general"

\* if len(content) > 50000
TruncateAt == 50000
TruncationMarker == Chars("\n\n[Content truncated...]")

Truncated_AtThreshold(content) ==
    IF Len(content) >= TruncateAt
    THEN SubSeq(content, 1, TruncateAt) \o TruncationMarker
    ELSE content
Truncated(content) ==
    IF Len(content) > TruncateAt
    THEN SubSeq(content, 1, TruncateAt) \o TruncationMarker
    ELSE content

\* what client.messages.create does: return a completion, or raise
Replies == {"completion", "error"}

summarize_Raising(content, content_type, reply) ==
    [template |-> _get_prompt_template(content_type),
     content |-> Truncated(content),
     requests |-> 1,
     raised |-> IF reply = "error" THEN "APIError" ELSE "none",
     value |-> "Generated summary"]

\* summarize: the prompt sent (template and content), the number of requests made,
\* and the string returned
summarize(content, content_type, reply) ==
    [template |-> _get_prompt_template(content_type),
     content |-> Truncated(content),
     requests |-> 1,
     raised |-> "none",
     value |-> IF reply = "error" THEN "Error generating summary" ELSE "Generated summary"]

(***************************************************************************)
(* Upstream responses the adapters are run on                              *)
(***************************************************************************)
DefaultFilingTypes == {"10-K", "10-Q", "8-K"}
FallbackFilingTypes == {"10-K", "10-Q"}

\* the "recent" object of a submissions index: parallel arrays; `short` names the
\* array that lacks its last element, if any
RecentArrays(forms, dates, short) ==
    LET n == Len(forms)
        cut(name) == IF short = name /\ n > 0 THEN n - 1 ELSE n
    IN [form |-> forms,
        filingDate |-> SubSeq(dates, 1, cut("filingDate")),
        accessionNumber |-> [k \in 1 .. cut("accessionNumber") |-> k],
        primaryDocument |-> [k \in 1 .. cut("primaryDocument") |-> k]]

\* feed.entries of a syndication feed; link is the entry's place in the feed
FeedEntry(title, published_parsed, summary) ==
    [title |-> title, published_parsed |-> published_parsed, summary |-> summary]

WithLinks(es) ==
    [k \in 1 .. Len(es) |->
        [title |-> es[k].title, published_parsed |-> es[k].published_parsed,
         summary |-> es[k].summary, link |-> k]]

\* the articles array of a provider response; url is the article's place in it
WithUrls(as) ==
    [k \in 1 .. Len(as) |->
        [title |-> "ServiceNow in the news", description |-> as[k].description,
         content |-> as[k].content, publishedAt |-> as[k].publishedAt,
         source |-> as[k].source, url |-> k]]

OkResponse(articles) == [error |-> FALSE, status |-> "ok", articles |-> articles]
ErrorResponse == [error |-> TRUE, status |-> "", articles |-> <<>>]
RefusedResponse == [error |-> FALSE, status |-> "error", articles |-> <<>>]
Response(kind, articles) ==
    CASE kind = "ok" -> OkResponse(articles)
      [] kind = "refused" -> RefusedResponse
      [] OTHER -> ErrorResponse
ResponseKinds == {"ok", "refused", "error"}

(***************************************************************************)
(* SecretsManager                                                          *)
(***************************************************************************)
\* a secret is None, the empty string or a key; "if secret:" holds for a key only
IsSet(secret) == secret # None /\ secret # Some("")

\* _get_from_1password: the value of the item's field, or None
_get_from_1password(vault) == IF IsSet(vault) THEN vault ELSE None

\* get_secret(secret_name, env_var_name, item_name), both names given:
\* use_1password is self.use_1password, vault the 1Password item, env os.environ
get_secret_EnvFirst(use_1password, vault, env) ==
    IF IsSet(env) THEN env
    ELSE IF use_1password /\ IsSet(_get_from_1password(vault))
        THEN _get_from_1password(vault)
    ELSE None
get_secret(use_1password, vault, env) ==
    IF use_1password /\ IsSet(_get_from_1password(vault))
        THEN _get_from_1password(vault)
    ELSE IF IsSet(env) THEN env
    ELSE None

(***************************************************************************)
(* ServiceNowMonitor: the parts that are functions of their arguments      *)
(***************************************************************************)
HasField(record, key) == key \in DOMAIN record
SetField(record, key, value) == (key :> value) @@ record

\* dict.get(key) is truthy: the key is there and its string is not empty
Truthy(record, key) == HasField(record, key) /\ record[key] # ""

\* Python "x or default" on an optional day count: None and 0 are falsy
OrDefault(opt, default) == IF opt = None \/ opt = Some(0) THEN default ELSE Value(opt)

\* run(): "Apply universal days_back if provided", then "Use defaults if not specified"
ResolveWindows(days_back, filings_days, releases_days, articles_days) ==
    LET f == IF days_back # None THEN days_back ELSE filings_days
        r == IF days_back # None THEN days_back ELSE releases_days
        a == IF days_back # None THEN days_back ELSE articles_days
    IN [sec |-> OrDefault(f, 90), pr |-> OrDefault(r, 60), news |-> OrDefault(a, 30)]

\* for i, record in enumerate(records[:summarize_count])
Selected_All(records, summarize_count) == records
Selected(records, summarize_count) == Take(records, summarize_count)

\* api_key = get_secret(...); if not api_key: api_key = config.get(...).get("api_key");
\* the key is used "if api_key", else there is none
ResolveKey(use_1password, vault, env, configured) ==
    LET api_key == get_secret(use_1password, vault, env)
        fallback == IF ~IsSet(api_key) THEN configured ELSE api_key
    IN IF IsSet(fallback) THEN fallback ELSE None

\* content_type = "earnings" if release['category'] == "earnings" else "press_release"
ReleaseContentType_ByTitle(release) ==
    IF release.title \in EarningsTitles THEN "earnings" ELSE "press_release"
ReleaseContentType(release) ==
    IF release.category = "earnings" THEN "earnings" ELSE "press_release"

\* main(): period_map
period_map == [week |-> 7, month |-> 30, quarter |-> 90, year |-> 365]

\* main(): the days_back passed to run(); period and days are the parsed flags
\* ("if args.period: ... elif args.days: ..."; 0 is falsy)
CliDaysBack(period, days) ==
    IF period # None THEN Some(period_map[Value(period)])
    ELSE IF days # None /\ days # Some(0) THEN days
    ELSE None

(***************************************************************************)
(* web_app: the dashboard's cache and its requests                         *)
(***************************************************************************)
MaxRequests == 2
Requests == 1 .. MaxRequests

\* the endpoints that touch cached_data
Endpoints == {"refresh_data", "get_filings", "get_releases", "get_articles", "get_summary"}
CacheKeys == {"last_updated", "sec_filings", "press_releases", "news_articles"}

\* a value of the cache is named by the refresh_data request that produced it: the
\* lists its fetches returned, the datetime.now().isoformat() it took; 0 names the
\* values the module starts with (last_updated None, the lists empty)
EmptyCache == [k \in CacheKeys |-> 0]

\* refresh_data: the statements of the try block, in order: the calls, which may
\* raise, and the assignments to cached_data
RefreshSteps_WriteAsFetched ==
    <<"ServiceNowMonitor", "fetch_sec_filings", "set_sec_filings",
      "fetch_press_releases", "set_press_releases",
      "fetch_news_articles", "set_news_articles", "set_last_updated">>
RefreshSteps ==
    <<"ServiceNowMonitor", "fetch_sec_filings", "fetch_press_releases",
      "fetch_news_articles",
      "set_sec_filings", "set_press_releases", "set_news_articles", "set_last_updated">>

\* the key of cached_data a statement of refresh_data assigns, if any
Assigned(statement) ==
    CASE statement = "set_sec_filings" -> Some("sec_filings")
      [] statement = "set_press_releases" -> Some("press_releases")
      [] statement = "set_news_articles" -> Some("news_articles")
      [] statement = "set_last_updated" -> Some("last_updated")
      [] OTHER -> None

\* the keys of cached_data a read endpoint gets, in order
ReadSteps(endpoint) ==
    CASE endpoint = "get_filings" -> <<"sec_filings", "last_updated">>
      [] endpoint = "get_releases" -> <<"press_releases", "last_updated">>
      [] endpoint = "get_articles" -> <<"news_articles", "last_updated">>
      [] endpoint = "get_summary" ->
            <<"sec_filings", "press_releases", "news_articles", "last_updated">>

\* a request: its endpoint, the next statement (step), what it has read of
\* cached_data (seen), the keys it has assigned (wrote), the statement that raised,
\* and the status it responded with
NoRequest == [endpoint |-> "none", step |-> 0, seen |-> <<>>, wrote |-> {},
              raised |-> "none", status |-> "none"]

(***************************************************************************)
(* The components on their own: one call of one adapter on any upstream    *)
(* response of the bounded sets below, at any time of day; one call of the *)
(* summarizer, of the key resolution, of run()'s window resolution or of   *)
(* the command line on any arguments of the bounded sets below.            *)
(***************************************************************************)
FilingAges == {5, 40, 90, 95}
FilingWindows == {40, 90}
HarnessForms == {"10-K", "8-K"}
HarnessDates == {DateStr(Today - a) : a \in FilingAges} \cup {Garbled}
HarnessShorts == {"none", "filingDate", "accessionNumber"}

ReleaseWindows == {1, 2}
\* the first tick of each of the days Today-3 .. Today, and the last of Today-2
PubTimes ==
    {(Today - a) * TicksPerDay : a \in 0 .. 3} \cup {(Today - 2) * TicksPerDay + TicksPerDay - 1}
HarnessEntries ==
    {FeedEntry(title, p, "") : title \in Titles, p \in {None} \cup {Some(t) : t \in PubTimes}}

ArticleWindows == {1, 30}
HarnessPublished ==
    {PublishedAt("iso", Today * TicksPerDay), PublishedAt("iso", (Today - 5) * TicksPerDay),
     PublishedAt("prefixed", (Today - 5) * TicksPerDay),
     PublishedAt("junk", 0), PublishedAt("empty", 0), PublishedAt("null", 0)}
HarnessArticles ==
    [description : {"d"}, content : {"c"}, publishedAt : HarnessPublished,
     source : {None, Some("Reuters")}]

NoCall == [fn |-> "none"]

MonitorIdle ==
    /\ pc = "off"
    /\ summarizer = FALSE
    /\ counts = [sec |-> 0, pr |-> 0, news |-> 0]
    /\ enabled = [sec |-> FALSE, pr |-> FALSE, news |-> FALSE]
    /\ newsKey = FALSE
    /\ windows = [sec |-> 0, pr |-> 0, news |-> 0]
    /\ adapterOut = [sec |-> <<>>, pr |-> <<>>, news |-> <<>>]
    /\ cur = <<>>
    /\ i = 0
    /\ results = [timestamp |-> 0, sec |-> <<>>, pr |-> <<>>, news |-> <<>>]
    /\ raised = "none"
    /\ raisedIn = "none"
    /\ fetchLog = {}
    /\ sumLog = <<>>
    /\ calls = <<>>
    /\ started = 0
    /\ runs = 0

WebIdle ==
    /\ cached_data = EmptyCache
    /\ req = [r \in Requests |-> NoRequest]

AdaptersInit ==
    /\ now \in Nows
    /\ call = NoCall
    /\ MonitorIdle
    /\ WebIdle

CallGetRecentFilings ==
    /\ call = NoCall
    /\ \E n \in 0 .. MaxEntries, failed \in BOOLEAN,
          filing_types \in {DefaultFilingTypes, FallbackFilingTypes},
          days_back \in FilingWindows :
        \E forms \in [1 .. n -> HarnessForms], dates \in [1 .. n -> HarnessDates],
           short \in HarnessShorts :
          /\ failed => n = 0
          /\ n = 0 => short = "none"
          /\ LET data == IF failed THEN None ELSE Some(RecentArrays(forms, dates, short))
             IN call' = [fn |-> "get_recent_filings", data |-> data,
                         filing_types |-> filing_types, days_back |-> days_back,
                         out |-> get_recent_filings(data, filing_types, days_back, now)]
    /\ UNCHANGED <<now, monitorVars, webVars>>

CallGetRecentPressReleases ==
    /\ call = NoCall
    /\ \E n \in 0 .. MaxEntries, failed \in BOOLEAN, days_back \in ReleaseWindows :
        \E es \in [1 .. n -> HarnessEntries] :
          /\ failed => n = 0
          /\ LET feed == IF failed THEN None ELSE Some(WithLinks(es))
             IN call' = [fn |-> "get_recent_press_releases", feed |-> feed,
                         days_back |-> days_back,
                         merged |-> merged_releases(feed, days_back, now),
                         out |-> get_recent_press_releases(feed, days_back, now)]
    /\ UNCHANGED <<now, monitorVars, webVars>>

CallGetRecentArticles ==
    /\ call = NoCall
    /\ \E n \in 0 .. MaxEntries, kind \in ResponseKinds, api_key \in BOOLEAN,
          days_back \in ArticleWindows :
        \E as \in [1 .. n -> HarnessArticles] :
          /\ (kind # "ok" \/ ~api_key) => n = 0
          /\ LET response == Response(kind, WithUrls(as))
             IN call' = [fn |-> "get_recent_articles", api_key |-> api_key,
                         response |-> response, days_back |-> days_back,
                         out |-> get_recent_articles(api_key, response, days_back, now)]
    /\ UNCHANGED <<now, monitorVars, webVars>>

\* content types: up to MaxTagWords of these words, run together
MaxTagWords == 3
TagWords ==
    {<<"1", "0">>, <<"8">>, <<"K">>, <<"k">>, <<"Q">>, <<"-">>, <<"_">>,
     Chars("earnings"), <<"p", "r", "e", "s", "s">>, <<"R", "e", "l", "e", "a", "s", "e">>,
     <<"n", "e", "w", "s">>}

RECURSIVE Join(_)
Join(words) == IF words = <<>> THEN <<>> ELSE Head(words) \o Join(Tail(words))

CallGetPromptTemplate ==
    /\ call = NoCall
    /\ \E n \in 0 .. MaxTagWords :
        \E words \in [1 .. n -> TagWords] :
          call' = [fn |-> "_get_prompt_template", content_type |-> Join(words),
                   out |-> _get_prompt_template(Join(words))]
    /\ UNCHANGED <<now, monitorVars, webVars>>

\* the records summarize is called for, and the content_type main.py passes for each
HarnessFilings == [form_type : DefaultFilingTypes]
HarnessReleases == [title : Titles, category : {"earnings", "general"}]
ContentTypeOf(source, record) ==
    CASE source = "sec" -> record.form_type
      [] source = "pr" -> ReleaseContentType(record)
      [] source = "news" -> "general"

\* contents: empty, one character, and the lengths within MaxOver of the threshold
MaxOver == 2
ContentLengths == {0, 1} \cup {TruncateAt + d : d \in (0 - MaxOver) .. MaxOver}
ContentOfLength(n) == [k \in 1 .. n |-> IF k % 2 = 1 THEN "x" ELSE "y"]

CallSummarize ==
    /\ call = NoCall
    /\ \E source \in {"sec", "pr", "news"}, n \in ContentLengths, reply \in Replies :
        \E record \in CASE source = "sec" -> HarnessFilings
                        [] source = "pr" -> HarnessReleases
                        [] source = "news" -> {[title |-> "ServiceNow in the news"]} :
          /\ n > 1 => source = "news"
          /\ call' = [fn |-> "summarize", source |-> source, record |-> record,
                      content |-> ContentOfLength(n),
                      content_type |-> ContentTypeOf(source, record), reply |-> reply,
                      out |-> summarize(ContentOfLength(n),
                                        Chars(ContentTypeOf(source, record)), reply)]
    /\ UNCHANGED <<now, monitorVars, webVars>>

\* the places a key can be set in: None, the empty string, a key
Secrets(key) == {None, Some(""), Some(key)}

\* ServiceNowMonitor.__init__: the summarizer and its key
CallInit ==
    /\ call = NoCall
    /\ \E SUMMARIZER_AVAILABLE \in BOOLEAN, claude_enabled \in BOOLEAN,
          use_1password \in BOOLEAN, vault \in Secrets("vault key"),
          env \in Secrets("env key"), configured \in Secrets("config key") :
        LET api_key == IF SUMMARIZER_AVAILABLE /\ claude_enabled
                       THEN ResolveKey(use_1password, vault, env, configured)
                       ELSE None
        IN call' = [fn |-> "__init__", key |-> "claude",
                    resolving |-> SUMMARIZER_AVAILABLE /\ claude_enabled,
                    use_1password |-> use_1password, vault |-> vault, env |-> env,
                    configured |-> configured, api_key |-> api_key,
                    summarizer |-> api_key # None]
    /\ UNCHANGED <<now, monitorVars, webVars>>

\* fetch_news_articles, up to NewsArticleFetcher(api_key=api_key, ...)
CallResolveNewsKey ==
    /\ call = NoCall
    /\ \E news_enabled \in BOOLEAN, use_1password \in BOOLEAN,
          vault \in Secrets("vault key"), env \in Secrets("env key"),
          configured \in Secrets("config key") :
        LET api_key == IF news_enabled
                       THEN ResolveKey(use_1password, vault, env, configured)
                       ELSE None
        IN call' = [fn |-> "fetch_news_articles", key |-> "news",
                    resolving |-> news_enabled,
                    use_1password |-> use_1password, vault |-> vault, env |-> env,
                    configured |-> configured, api_key |-> api_key,
                    fetcher |-> api_key # None]
    /\ UNCHANGED <<now, monitorVars, webVars>>

\* day counts given as arguments
DayCounts == {0, 14, 45}
OptionalDays == {None} \cup {Some(d) : d \in DayCounts}

\* run(), up to the call of fetch_sec_filings
CallRun ==
    /\ call = NoCall
    /\ \E days_back \in OptionalDays, filings_days \in OptionalDays,
          releases_days \in OptionalDays, articles_days \in OptionalDays :
        call' = [fn |-> "run", days_back |-> days_back, filings_days |-> filings_days,
                 releases_days |-> releases_days, articles_days |-> articles_days,
                 windows |-> ResolveWindows(days_back, filings_days,
                                            releases_days, articles_days)]
    /\ UNCHANGED <<now, monitorVars, webVars>>

\* main(): the parsed flags and the arguments run() is called with
CallMain ==
    /\ call = NoCall
    /\ \E period \in {None} \cup {Some(p) : p \in DOMAIN period_map},
          days \in OptionalDays, filings_days \in OptionalDays,
          releases_days \in OptionalDays, articles_days \in OptionalDays :
        call' = [fn |-> "main", period |-> period, days |-> days,
                 run_args |-> [days_back |-> CliDaysBack(period, days),
                               filings_days |-> filings_days,
                               releases_days |-> releases_days,
                               articles_days |-> articles_days]]
    /\ UNCHANGED <<now, monitorVars, webVars>>

AdaptersNext ==
    \/ CallGetRecentFilings
    \/ CallGetRecentPressReleases
    \/ CallGetRecentArticles
    \/ CallGetPromptTemplate
    \/ CallSummarize
    \/ CallInit
    \/ CallResolveNewsKey
    \/ CallRun
    \/ CallMain

SpecAdapters == AdaptersInit /\ [][AdaptersNext]_vars

(***************************************************************************)
(* ServiceNowMonitor                                                       *)
(***************************************************************************)
\* the upstream responses the monitor is run on
PipeForms == {"8-K", "4"}
PipeDates == {DateStr(Today - 5), Garbled}
PipeEntries ==
    {FeedEntry(title, Some(Today * TicksPerDay), summary) :
        title \in Titles, summary \in {"", "feed summary"}}
PipeArticles ==
    [description : {"", "d"}, content : {""},
     publishedAt : {PublishedAt("iso", Today * TicksPerDay)}, source : {Some("Reuters")}]
RunArgs == {[days_back |-> None, filings_days |-> None,
             releases_days |-> None, articles_days |-> None]}

\* the state after ServiceNowMonitor.__init__
Init ==
    /\ now = Today * TicksPerDay + (TicksPerDay - 1)
    /\ call = NoCall
    /\ pc = "idle"
    /\ summarizer \in BOOLEAN
    /\ counts \in [sec : 0 .. MaxCount, pr : 0 .. MaxCount, news : 0 .. MaxCount]
    /\ enabled \in [sec : BOOLEAN, pr : BOOLEAN, news : BOOLEAN]
    /\ newsKey \in BOOLEAN
    /\ windows = [sec |-> 0, pr |-> 0, news |-> 0]
    /\ adapterOut = [sec |-> <<>>, pr |-> <<>>, news |-> <<>>]
    /\ cur = <<>>
    /\ i = 0
    /\ results = [timestamp |-> now, sec |-> <<>>, pr |-> <<>>, news |-> <<>>]
    /\ raised = "none"
    /\ raisedIn = "none"
    /\ fetchLog = {}
    /\ sumLog = <<>>
    /\ calls = <<>>
    /\ started = 0
    /\ runs = 0
    /\ WebIdle

config == <<summarizer, counts, enabled, newsKey>>

\* run(): the order of the three fetch_* calls
run_order_NewsFirst == <<"news", "sec", "pr">>
run_order == <<"sec", "pr", "news">>

\* the fetch_* method of a source, and what run() does after it has returned
FetchOf(source) ==
    CASE source = "sec" -> "fetch_sec_filings"
      [] source = "pr" -> "fetch_press_releases"
      [] source = "news" -> "fetch_news_articles"
Place(source) == CHOOSE k \in 1 .. Len(run_order) : run_order[k] = source
After(source) ==
    IF Place(source) = Len(run_order) THEN "print_summary"
    ELSE FetchOf(run_order[Place(source) + 1])

\* a call that leaves the process: an adapter's request, a content retrieval, a
\* summarizer request (pos: the record it is made for, 0 for the adapter call)
ExternalCall(kind, source, pos) == [kind |-> kind, source |-> source, pos |-> pos]

\* an exception leaves the fetch_* method and, uncaught in run(), run() itself
Abort(exception, where) ==
    /\ pc' = "aborted"
    /\ raised' = exception
    /\ raisedIn' = where

\* the entry of sumLog for a summarize call
Summarized(source, pos, content, content_type, reply, out) ==
    [source |-> source, pos |-> pos, content |-> content, content_type |-> content_type,
     template |-> out.template, requests |-> out.requests, reply |-> reply,
     raised |-> out.raised, summary |-> out.value]

\* the enrichment of record i with the outcome of summarize: the summary is stored,
\* or the exception of summarize leaves the fetch_* method
Enriched(where, out) ==
    IF out.raised # "none"
    THEN /\ Abort(out.raised, where)
         /\ UNCHANGED <<cur, i>>
    ELSE /\ cur' = [cur EXCEPT ![i] =
                SetField(SetField(@, "summary", out.value), "content_fetched", TRUE)]
         /\ i' = i + 1
         /\ UNCHANGED <<pc, raised, raisedIn>>

\* run(): window resolution, up to the call of fetch_sec_filings
Run ==
    /\ pc = "idle"
    /\ \E a \in RunArgs :
          windows' = ResolveWindows(a.days_back, a.filings_days,
                                    a.releases_days, a.articles_days)
    /\ pc' = FetchOf(run_order[1])
    /\ started' = now
    /\ runs' = runs + 1
    /\ UNCHANGED <<now, call, webVars, config, adapterOut, cur, i, results, raised,
                   raisedIn, fetchLog, sumLog, calls>>

\* the adapter call of a fetch_* method and what follows it: enrich, or store and
\* return
AfterAdapter(source, out, enrich, next) ==
    /\ calls' = Append(calls, ExternalCall("adapter", source, 0))
    /\ IF out.raised # "none"
       THEN /\ Abort(out.raised, source)
            /\ UNCHANGED <<adapterOut, cur, i, results>>
       ELSE IF summarizer /\ out.value # <<>>
       THEN /\ adapterOut' = [adapterOut EXCEPT ![source] = out.value]
            /\ cur' = out.value
            /\ i' = 1
            /\ pc' = enrich
            /\ UNCHANGED <<results, raised, raisedIn>>
       ELSE /\ adapterOut' = [adapterOut EXCEPT ![source] = out.value]
            /\ results' = [results EXCEPT ![source] = out.value]
            /\ cur' = <<>>
            /\ i' = 0
            /\ pc' = next
            /\ UNCHANGED <<raised, raisedIn>>

\* a disabled source: "return []", self.results is not touched
Skip(next) ==
    /\ pc' = next
    /\ UNCHANGED <<adapterOut, cur, i, results, raised, raisedIn, calls>>

\* the end of the enrichment loop: self.results[source] = records; return records
Store_SelectedOnly(source, next) ==
    /\ results' = [results EXCEPT ![source] = Selected(cur, counts[source])]
    /\ cur' = <<>>
    /\ i' = 0
    /\ pc' = next
    /\ UNCHANGED <<adapterOut, raised, raisedIn, fetchLog, sumLog, calls>>
Store(source, next) ==
    /\ results' = [results EXCEPT ![source] = cur]
    /\ cur' = <<>>
    /\ i' = 0
    /\ pc' = next
    /\ UNCHANGED <<adapterOut, raised, raisedIn, fetchLog, sumLog, calls>>

\* fetch_sec_filings, up to the enrichment loop
FetchSecFilings ==
    /\ pc = "fetch_sec_filings"
    /\ IF ~enabled.sec THEN Skip(After("sec"))
       ELSE \E n \in 0 .. MaxPipeEntries, failed \in BOOLEAN :
            \E forms \in [1 .. n -> PipeForms], dates \in [1 .. n -> PipeDates] :
               /\ failed => n = 0
               /\ AfterAdapter("sec",
                      get_recent_filings(
                          IF failed THEN None ELSE Some(RecentArrays(forms, dates, "none")),
                          DefaultFilingTypes, windows.sec, now),
                      "sec_enrich", After("sec"))
    /\ UNCHANGED <<now, call, webVars, runs, started, config, windows, fetchLog, sumLog>>

\* one pass of the loop of fetch_sec_filings
SecEnrichStep ==
    /\ pc = "sec_enrich"
    /\ i <= Len(Selected(cur, counts.sec))
    /\ IF "fetch_filing_content" \notin SECEdgarFetcherMethods
       THEN /\ fetchLog' = fetchLog \cup {<<"sec", i, "AttributeError">>}
            /\ Abort("AttributeError", "sec_enrich")
            /\ UNCHANGED <<cur, i, sumLog, calls>>
       ELSE \E content \in {None, Some(Chars("c"))} :
               IF content # None
               THEN \E reply \in Replies :
                       LET out == summarize(Value(content), Chars(cur[i].form_type), reply)
                       IN /\ fetchLog' = fetchLog \cup {<<"sec", i, "fetched">>}
                          /\ calls' = calls \o <<ExternalCall("fetch", "sec", i),
                                                  ExternalCall("summarize", "sec", i)>>
                          /\ sumLog' = Append(sumLog,
                                 Summarized("sec", i, Value(content), cur[i].form_type,
                                            reply, out))
                          /\ Enriched("sec_enrich", out)
               ELSE /\ fetchLog' = fetchLog \cup {<<"sec", i, "failed">>}
                    /\ calls' = Append(calls, ExternalCall("fetch", "sec", i))
                    /\ cur' = [cur EXCEPT ![i] =
                           SetField(SetField(@, "summary", "Unable to fetch filing content"),
                                    "content_fetched", FALSE)]
                    /\ i' = i + 1
                    /\ UNCHANGED <<pc, raised, raisedIn, sumLog>>
    /\ UNCHANGED <<now, call, webVars, runs, started, config, windows, adapterOut, results>>

SecStore ==
    /\ pc = "sec_enrich"
    /\ i > Len(Selected(cur, counts.sec))
    /\ Store("sec", After("sec"))
    /\ UNCHANGED <<now, call, webVars, runs, started, config, windows>>

\* fetch_press_releases, up to the enrichment loop
FetchPressReleases ==
    /\ pc = "fetch_press_releases"
    /\ IF ~enabled.pr THEN Skip(After("pr"))
       ELSE \E n \in 0 .. MaxPipeEntries, failed \in BOOLEAN :
            \E es \in [1 .. n -> PipeEntries] :
               /\ failed => n = 0
               /\ AfterAdapter("pr",
                      get_recent_press_releases(
                          IF failed THEN None ELSE Some(WithLinks(es)), windows.pr, now),
                      "pr_enrich", After("pr"))
    /\ UNCHANGED <<now, call, webVars, runs, started, config, windows, fetchLog, sumLog>>

\* one pass of the loop of fetch_press_releases
PressEnrichStep ==
    /\ pc = "pr_enrich"
    /\ i <= Len(Selected(cur, counts.pr))
    /\ IF "fetch_press_release_content" \notin PressReleaseFetcherMethods
       THEN /\ fetchLog' = fetchLog \cup {<<"pr", i, "AttributeError">>}
            /\ Abort("AttributeError", "pr_enrich")
            /\ UNCHANGED <<cur, i, sumLog, calls>>
       ELSE \E content \in {None, Some(Chars("c"))} :
               IF content # None
               THEN \E reply \in Replies :
                       LET content_type == ReleaseContentType(cur[i])
                           out == summarize(Value(content), Chars(content_type), reply)
                       IN /\ fetchLog' = fetchLog \cup {<<"pr", i, "fetched">>}
                          /\ calls' = calls \o <<ExternalCall("fetch", "pr", i),
                                                  ExternalCall("summarize", "pr", i)>>
                          /\ sumLog' = Append(sumLog,
                                 Summarized("pr", i, Value(content), content_type,
                                            reply, out))
                          /\ Enriched("pr_enrich", out)
               ELSE /\ fetchLog' = fetchLog \cup {<<"pr", i, "failed">>}
                    /\ calls' = Append(calls, ExternalCall("fetch", "pr", i))
                    /\ cur' = [cur EXCEPT ![i] =
                           SetField(IF Truthy(@, "summary") THEN @
                                    ELSE SetField(@, "summary",
                                             "Unable to fetch press release content"),
                                    "content_fetched", FALSE)]
                    /\ i' = i + 1
                    /\ UNCHANGED <<pc, raised, raisedIn, sumLog>>
    /\ UNCHANGED <<now, call, webVars, runs, started, config, windows, adapterOut, results>>

PressStore ==
    /\ pc = "pr_enrich"
    /\ i > Len(Selected(cur, counts.pr))
    /\ Store("pr", After("pr"))
    /\ UNCHANGED <<now, call, webVars, runs, started, config, windows>>

\* fetch_news_articles, up to the enrichment loop
FetchNewsArticles ==
    /\ pc = "fetch_news_articles"
    /\ IF ~enabled.news \/ ~newsKey THEN Skip(After("news"))
       ELSE \E n \in 0 .. MaxPipeEntries, kind \in ResponseKinds :
            \E as \in [1 .. n -> PipeArticles] :
               /\ kind # "ok" => n = 0
               /\ AfterAdapter("news",
                      get_recent_articles(newsKey, Response(kind, WithUrls(as)),
                                          windows.news, now),
                      "news_enrich", After("news"))
    /\ UNCHANGED <<now, call, webVars, runs, started, config, windows, fetchLog, sumLog>>

\* f"{description}\n\n{content}".strip() is not empty
HasText(article) == article.description # "" \/ article.content # ""

\* one pass of the loop of fetch_news_articles
NewsEnrichStep ==
    /\ pc = "news_enrich"
    /\ i <= Len(Selected(cur, counts.news))
    /\ IF HasText(cur[i])
       THEN \E reply \in Replies :
               LET content == Chars(cur[i].description) \o Chars("\n\n")
                                 \o Chars(cur[i].content)
                   out == summarize(content, Chars("general"), reply)
               IN /\ sumLog' = Append(sumLog,
                         Summarized("news", i, content, "general", reply, out))
                  /\ calls' = Append(calls, ExternalCall("summarize", "news", i))
                  /\ Enriched("news_enrich", out)
       ELSE /\ cur' = [cur EXCEPT ![i] =
                   SetField(SetField(@, "summary", @.description),
                            "content_fetched", FALSE)]
            /\ i' = i + 1
            /\ UNCHANGED <<pc, raised, raisedIn, sumLog, calls>>
    /\ UNCHANGED <<now, call, webVars, runs, started, config, windows, adapterOut, results,
                   fetchLog>>

NewsStore ==
    /\ pc = "news_enrich"
    /\ i > Len(Selected(cur, counts.news))
    /\ Store("news", After("news"))
    /\ UNCHANGED <<now, call, webVars, runs, started, config, windows>>

\* print_summary and the return of run()
Finish ==
    /\ pc = "print_summary"
    /\ pc' = "done"
    /\ UNCHANGED <<now, call, webVars, runs, started, config, windows, adapterOut, cur, i,
                   results, raised, raisedIn, fetchLog, sumLog, calls>>

Next ==
    \/ Run
    \/ FetchSecFilings
    \/ SecEnrichStep
    \/ SecStore
    \/ FetchPressReleases
    \/ PressEnrichStep
    \/ PressStore
    \/ FetchNewsArticles
    \/ NewsEnrichStep
    \/ NewsStore
    \/ Finish

Spec == Init /\ [][Next]_vars

(***************************************************************************)
(* ServiceNowMonitor: run() called again on the same monitor               *)
(***************************************************************************)
MaxRuns == 2
MaxRunsCount == 1

\* the monitors run() is called on more than once: every source enabled in the
\* configuration, at most MaxRunsCount records summarized per source
RunsInit ==
    /\ Init
    /\ \A s \in {"sec", "pr", "news"} : enabled[s] /\ counts[s] <= MaxRunsCount

\* run() has returned or raised and the caller calls it again: self.results is the
\* dictionary made in __init__, the configuration is the one loaded in __init__, and
\* the news key, looked up on every call of fetch_news_articles, may have changed
RunAgain ==
    /\ pc \in {"done", "aborted"}
    /\ runs < MaxRuns
    /\ pc' = "idle"
    /\ newsKey' \in BOOLEAN
    /\ adapterOut' = [sec |-> <<>>, pr |-> <<>>, news |-> <<>>]
    /\ cur' = <<>>
    /\ i' = 0
    /\ raised' = "none"
    /\ raisedIn' = "none"
    /\ fetchLog' = {}
    /\ sumLog' = <<>>
    /\ calls' = <<>>
    /\ UNCHANGED <<now, call, webVars, runs, started, summarizer, counts, enabled,
                   windows, results>>

\* time passes between one run() and the next, up to the start of the next day
Tick ==
    /\ pc = "idle"
    /\ runs >= 1
    /\ now < (Today + 1) * TicksPerDay
    /\ now' = now + 1
    /\ UNCHANGED <<call, webVars, monitorVars>>

RunsNext ==
    \/ Next
    \/ RunAgain
    \/ Tick

SpecRuns == RunsInit /\ [][RunsNext]_vars

(***************************************************************************)
(* web_app: requests served concurrently on the one cached_data            *)
(***************************************************************************)
WebInit ==
    /\ now = Today * TicksPerDay
    /\ call = NoCall
    /\ MonitorIdle
    /\ WebIdle

\* a request arrives and its handler is entered; requests are numbered in the order
\* of their arrival
StartRequest(r) ==
    /\ req[r].endpoint = "none"
    /\ \A q \in 1 .. r - 1 : req[q].endpoint # "none"
    /\ \E endpoint \in Endpoints :
          req' = [req EXCEPT ![r] = [@ EXCEPT !.endpoint = endpoint, !.step = 1]]
    /\ UNCHANGED <<now, call, monitorVars, cached_data>>

\* refresh_data: the next statement of the try block; a call returns or raises, and
\* the except clause answers with status 'error'
RefreshStep(r) ==
    /\ req[r].endpoint = "refresh_data"
    /\ req[r].status = "none"
    /\ req[r].step <= Len(RefreshSteps)
    /\ LET statement == RefreshSteps[req[r].step] IN
          IF Assigned(statement) # None
          THEN /\ cached_data' = [cached_data EXCEPT ![Value(Assigned(statement))] = r]
               /\ req' = [req EXCEPT ![r] =
                     [@ EXCEPT !.step = @ + 1,
                               !.wrote = @ \cup {Value(Assigned(statement))}]]
          ELSE /\ \E raises \in BOOLEAN :
                     req' = [req EXCEPT ![r] =
                        IF raises
                        THEN [@ EXCEPT !.raised = statement, !.status = "error"]
                        ELSE [@ EXCEPT !.step = @ + 1]]
               /\ UNCHANGED cached_data
    /\ UNCHANGED <<now, call, monitorVars>>

\* refresh_data: return jsonify({'status': 'success', ...})
RefreshRespond(r) ==
    /\ req[r].endpoint = "refresh_data"
    /\ req[r].status = "none"
    /\ req[r].step > Len(RefreshSteps)
    /\ req' = [req EXCEPT ![r] = [@ EXCEPT !.status = "success"]]
    /\ UNCHANGED <<now, call, monitorVars, cached_data>>

\* a read endpoint: the next cached_data[...] of the handler
ReadStep(r) ==
    /\ req[r].endpoint \in Endpoints \ {"refresh_data"}
    /\ req[r].status = "none"
    /\ req[r].step <= Len(ReadSteps(req[r].endpoint))
    /\ LET key == ReadSteps(req[r].endpoint)[req[r].step] IN
          req' = [req EXCEPT ![r] =
             [@ EXCEPT !.step = @ + 1,
                       !.seen = Append(@, [key |-> key, value |-> cached_data[key]])]]
    /\ UNCHANGED <<now, call, monitorVars, cached_data>>

\* a read endpoint: return jsonify(...)
ReadRespond(r) ==
    /\ req[r].endpoint \in Endpoints \ {"refresh_data"}
    /\ req[r].status = "none"
    /\ req[r].step > Len(ReadSteps(req[r].endpoint))
    /\ req' = [req EXCEPT ![r] = [@ EXCEPT !.status = "success"]]
    /\ UNCHANGED <<now, call, monitorVars, cached_data>>

WebNext ==
    \/ \E r \in Requests : StartRequest(r)
    \/ \E r \in Requests : RefreshStep(r)
    \/ \E r \in Requests : RefreshRespond(r)
    \/ \E r \in Requests : ReadStep(r)
    \/ \E r \in Requests : ReadRespond(r)

SpecWeb == WebInit /\ [][WebNext]_vars

(***************************************************************************)
(* Properties of the adapters, checked under SpecAdapters                  *)
(***************************************************************************)
\* the calendar date of now - days_back
CutoffDay(days_back) == strftime(now - timedelta(days_back))

\* scenario 1: three filings of requested form types dated [T-5, T-40, T-95], window 90
Scenario1 ==
    /\ call.fn = "get_recent_filings"
    /\ call.data # None
    /\ call.days_back = 90
    /\ LET recent == Value(call.data) IN
          /\ Len(recent.form) = 3
          /\ \A k \in 1 .. 3 : recent.form[k] \in call.filing_types
          /\ recent.filingDate =
                <<DateStr(Today - 5), DateStr(Today - 40), DateStr(Today - 95)>>
          /\ Len(recent.accessionNumber) = 3
          /\ Len(recent.primaryDocument) = 3

\* C4: every record the filings adapter and the press-release adapter return is dated
\* on or after the calendar date of now - days_back, whatever the upstream response;
\* filings dated [T-5, T-40, T-95] with window 90 yield exactly the first two.
C4_AdaptersApplyCutoff ==
    /\ call.fn = "get_recent_filings" =>
          \A k \in 1 .. Len(call.out.value) :
              call.out.value[k].filing_date >= CutoffDay(call.days_back)
    /\ call.fn = "get_recent_press_releases" =>
          \A k \in 1 .. Len(call.out.value) :
              call.out.value[k].date >= CutoffDay(call.days_back)
    /\ Scenario1 =>
          /\ call.out.raised = "none"
          /\ [k \in 1 .. Len(call.out.value) |-> call.out.value[k].accession_number]
                = <<1, 2>>

\* C4 witness: scenario 1 was run and returned the filings dated T-5 and T-40
C4_Witness ==
    /\ Scenario1
    /\ Len(call.out.value) = 2
    /\ call.out.value[2].filing_date = Today - 40

\* C5: a filing of a requested form type dated on the calendar date of now - days_back
\* is returned, at every time of day (the index well-formed, the call not raising).
C5_BoundaryFilingIncluded ==
    (/\ call.fn = "get_recent_filings"
     /\ call.data # None
     /\ call.out.raised = "none"
     /\ Len(Value(call.data).accessionNumber) = Len(Value(call.data).form)) =>
        LET recent == Value(call.data) IN
        \A k \in 1 .. Len(recent.form) :
            (/\ recent.form[k] \in call.filing_types
             /\ recent.filingDate[k] = DateStr(strftime(now) - call.days_back))
            => \E j \in 1 .. Len(call.out.value) : call.out.value[j].accession_number = k

\* C6: every dated record the news adapter returns is dated on or after the calendar
\* date of now - days_back, whatever the provider sent.
C6_NewsAdapterAppliesCutoff ==
    call.fn = "get_recent_articles" =>
        \A k \in 1 .. Len(call.out.value) :
            call.out.value[k].date.text = "date" =>
                call.out.value[k].date.day >= CutoffDay(call.days_back)

\* C7: the titles of the list get_recent_press_releases returns are pairwise distinct,
\* and they are exactly the titles of the merged input.
C7_TitlesUnique ==
    call.fn = "get_recent_press_releases" =>
        LET out == call.out.value
            merged == call.merged
        IN /\ \A a, b \in 1 .. Len(out) : a # b => out[a].title # out[b].title
           /\ {merged[k].title : k \in 1 .. Len(merged)} = {out[k].title : k \in 1 .. Len(out)}

\* C7 witness: the merged input held a title twice and the output holds it once
C7_Witness ==
    /\ call.fn = "get_recent_press_releases"
    /\ \E a, b \in 1 .. Len(call.merged) :
          a # b /\ call.merged[a].title = call.merged[b].title
    /\ Len(call.out.value) = 2

\* C8: the list get_recent_press_releases returns is sorted newest first, and the
\* duplicates were dropped before the sort: of the entries of one title the list
\* holds the first of the merged (feed) order, not the newest.
C8_SortedNewestFirst ==
    call.fn = "get_recent_press_releases" =>
        LET out == call.out.value
            merged == call.merged
        IN /\ \A k \in 1 .. Len(out) - 1 : out[k].date >= out[k + 1].date
           /\ \A k \in 1 .. Len(out) :
                 \E m \in 1 .. Len(merged) :
                    /\ merged[m] = out[k]
                    /\ \A l \in 1 .. m - 1 : merged[l].title # out[k].title

\* C8 witness: the feed held an older entry before a newer one of another title, and a
\* newer duplicate of the older entry's title; the output is the two firsts, newest first
C8_Witness ==
    /\ call.fn = "get_recent_press_releases"
    /\ Len(call.merged) = 3
    /\ call.merged[1].title = call.merged[3].title
    /\ call.merged[1].date < call.merged[2].date
    /\ call.merged[2].date < call.merged[3].date
    /\ call.out.value = <<call.merged[2], call.merged[1]>>

\* C12: the content type passed for a filing resolves to the template of its form
\* type (8-K: current report, 10-K: annual, 10-Q: quarterly); a press release of
\* category "earnings" gets the earnings template whatever its title, every other
\* press release the press-release template.
C12_CategoryRouting ==
    (call.fn = "summarize" /\ call.source = "sec" =>
        /\ call.record.form_type = "8-K" => call.out.template = "8-K"
        /\ call.record.form_type = "10-K" => call.out.template = "10-K"
        /\ call.record.form_type = "10-Q" => call.out.template = "10-Q")
    /\ (call.fn = "summarize" /\ call.source = "pr" =>
        call.out.template =
            IF call.record.category = "earnings" THEN "earnings" ELSE "press_release")

\* C12 witness: a release of category "earnings" whose title has no earnings keyword
\* was given the earnings template
C12_Witness ==
    /\ call.fn = "summarize"
    /\ call.source = "pr"
    /\ call.record.category = "earnings"
    /\ call.record.title \notin EarningsTitles
    /\ call.out.template = "earnings"

\* a content-type tag names a category: the form types by their (case-insensitive,
\* "-" or "_") name, earnings and press release by a keyword the tag contains
MatchesForm(tag, form) == replace(upper(tag), "-", "_") = replace(Chars(form), "-", "_")
MatchesEarnings(tag) == Contains(Chars("EARNING"), upper(tag))
MatchesPressRelease(tag) ==
    Contains(Chars("PRESS"), upper(tag)) \/ Contains(Chars("RELEASE"), upper(tag))

\* C13: _get_prompt_template returns one of the templates for every tag: the earnings
\* template for a tag with an earnings keyword and a press-release keyword, the
\* general template for a tag that names none of the five categories.
C13_TemplatePrecedence ==
    call.fn = "_get_prompt_template" =>
        LET tag == call.content_type IN
        /\ call.out \in PROMPTS
        /\ (MatchesEarnings(tag) /\ MatchesPressRelease(tag)) => call.out = "earnings"
        /\ (/\ \A form \in DefaultFilingTypes : ~MatchesForm(tag, form)
            /\ ~MatchesEarnings(tag)
            /\ ~MatchesPressRelease(tag)) => call.out = "general"

\* C13 witness: the tag "earnings_Release" resolved to the earnings template
C13_Witness ==
    /\ call.fn = "_get_prompt_template"
    /\ call.content_type = Chars("earnings") \o <<"_">> \o <<"R", "e", "l", "e", "a", "s", "e">>
    /\ call.out = "earnings"

\* C14: content longer than 50,000 characters is sent as its first 50,000 characters
\* followed by the truncation marker; content of 50,000 characters or fewer is sent
\* as it is.
C14_Truncation ==
    call.fn = "summarize" =>
        LET content == call.content
            sent == call.out.content
        IN IF Len(content) > 50000
           THEN /\ Len(sent) = 50000 + Len(TruncationMarker)
                /\ SubSeq(sent, 1, 50000) = SubSeq(content, 1, 50000)
                /\ SubSeq(sent, 50001, Len(sent)) = TruncationMarker
           ELSE sent = content

\* C14 witness: content of 50,001 characters was sent truncated
C14_Witness ==
    /\ call.fn = "summarize"
    /\ Len(call.content) = 50001
    /\ Len(call.out.content) = 50000 + Len(TruncationMarker)

\* the value the vault yields: none when the 1Password CLI is not in use
VaultValue == IF call.use_1password THEN call.vault ELSE None

C17_DaysOverridesPeriod ==
    (call.fn = "main" /\ call.period # None /\ call.days # None) =>
        call.run_args.days_back = call.days

\* C18: each source's window is the universal days_back when given, else the source's
\* own day count when given, else the default (90, 60, 30), for every day count >= 0.
C18_WindowResolution ==
    call.fn = "run" =>
        LET window(own, default) ==
                IF call.days_back # None THEN Value(call.days_back)
                ELSE IF own # None THEN Value(own)
                ELSE default
        IN call.windows = [sec |-> window(call.filings_days, 90),
                           pr |-> window(call.releases_days, 60),
                           news |-> window(call.articles_days, 30)]

\* entry k of the submissions index has all its elements and a parseable date
WellFormedEntry(recent, k) ==
    /\ k <= Len(recent.filingDate)
    /\ k <= Len(recent.accessionNumber)
    /\ k <= Len(recent.primaryDocument)
    /\ recent.filingDate[k].iso

\* C19: get_recent_filings does not raise on an index with a malformed entry, and
\* returns every well-formed entry of a requested form type that is not too old.
C19_MalformedEntriesSkipped ==
    (call.fn = "get_recent_filings" /\ call.data # None) =>
        LET recent == Value(call.data) IN
        /\ call.out.raised = "none"
        /\ \A k \in 1 .. Len(recent.form) :
              (/\ WellFormedEntry(recent, k)
               /\ recent.form[k] \in call.filing_types
               /\ ~FilingTooOld(strptime(recent.filingDate[k].day),
                                now - timedelta(call.days_back)))
              => \E j \in 1 .. Len(call.out.value) :
                    call.out.value[j].accession_number = k

\* C20: none of get_recent_filings, get_recent_press_releases, get_recent_articles
\* raises, whatever the transport did and whatever the response holds.
C20_AdaptersNeverRaise ==
    call.fn \in {"get_recent_filings", "get_recent_press_releases", "get_recent_articles"}
        => call.out.raised = "none"

\* C24: every record a source adapter returns has its date populated: a calendar date
\* for filings and press releases, a non-empty string for news articles, even when
\* the provider's publishedAt is missing or malformed.
C24_DateAlwaysPopulated ==
    /\ call.fn = "get_recent_filings" =>
          \A k \in 1 .. Len(call.out.value) : call.out.value[k].filing_date \in Nat
    /\ call.fn = "get_recent_press_releases" =>
          \A k \in 1 .. Len(call.out.value) : call.out.value[k].date \in Nat
    /\ call.fn = "get_recent_articles" =>
          \A k \in 1 .. Len(call.out.value) : call.out.value[k].date.text # ""

\* the positions of the index that get_recent_filings returned, in the order returned
ReturnedEntries == [j \in 1 .. Len(call.out.value) |-> call.out.value[j].accession_number]

\* C28: get_recent_filings(filing_types = S) returns only records with form_type in S,
\* returns every index entry with form type in S that passes the recency cutoff, and
\* keeps the index's order.
C28_FormTypeFilter ==
    (call.fn = "get_recent_filings" /\ call.data # None) =>
        LET recent == Value(call.data) IN
        /\ \A j \in 1 .. Len(call.out.value) :
              call.out.value[j].form_type \in call.filing_types
        /\ \A k \in 1 .. Len(recent.form) :
              (/\ recent.form[k] \in call.filing_types
               /\ WellFormedEntry(recent, k)
               /\ ~FilingTooOld(strptime(recent.filingDate[k].day),
                                now - timedelta(call.days_back)))
              => \E j \in 1 .. Len(call.out.value) : ReturnedEntries[j] = k
        /\ \A j1, j2 \in 1 .. Len(call.out.value) :
              j1 < j2 => ReturnedEntries[j1] < ReturnedEntries[j2]

(***************************************************************************)
(* Properties of ServiceNowMonitor, checked under Spec                     *)
(***************************************************************************)
Sources == {"sec", "pr", "news"}

\* the records of a source: the list being enriched, or the stored result
Records(source) ==
    IF pc = source \o "_enrich" THEN cur ELSE results[source]

\* C1: no failure of a source's adapter call or enrichment step aborts run(): no
\* exception leaves run(), which goes on to the remaining sources.
C1_SourceFailureIsolated ==
    /\ raised = "none"
    /\ pc # "aborted"

\* C2: a selected filing whose content retrieval failed has the sentinel summary and
\* content_fetched = false, and fetch_sec_filings returns normally.
C2_FilingContentFailureYieldsSentinel ==
    \A e \in fetchLog :
        (e[1] = "sec" /\ e[3] # "fetched") =>
            /\ raised = "none"
            /\ Records("sec")[e[2]].summary = "Unable to fetch filing content"
            /\ Records("sec")[e[2]].content_fetched = FALSE

\* C3: a selected press release whose content retrieval failed has
\* content_fetched = false and keeps a non-empty feed summary; the sentinel is
\* written only when the feed gave no summary.
C3_ReleaseContentFailureKeepsFeedSummary ==
    \A e \in fetchLog :
        (e[1] = "pr" /\ e[3] # "fetched") =>
            /\ raised = "none"
            /\ Records("pr")[e[2]].content_fetched = FALSE
            /\ Records("pr")[e[2]].summary =
                  IF adapterOut.pr[e[2]].summary # "" THEN adapterOut.pr[e[2]].summary
                  ELSE "Unable to fetch press release content"

\* a summary that is a result: not empty, not a sentinel, not the error string
Successful(summary) ==
    summary \notin {"", "Unable to fetch filing content",
                    "Unable to fetch press release content", "Error generating summary"}

\* C11: no step of run() changes the summary of a record that holds a successful
\* value, the feed's own summary of a press release included.
C11_SummarySetOnce ==
    [][\A s \in Sources :
          \A k \in 1 .. Min(Len(Records(s)), Len(Records(s)')) :
              (HasField(Records(s)[k], "summary") /\ Successful(Records(s)[k].summary))
                  => Records(s)'[k].summary = Records(s)[k].summary]_vars

\* C11 witness: the summarizer is on, a press release carries its feed summary, the
\* first article has been summarized and the enrichment loop has gone on past the
\* second
C11_Witness ==
    /\ pc = "news_enrich"
    /\ i = 3
    /\ cur[1].summary = "Generated summary"
    /\ Len(results.pr) > 0
    /\ results.pr[1].summary = "feed summary"

\* the places of sumLog that are calls for a source
CallsFor(source) == {k \in 1 .. Len(sumLog) : sumLog[k].source = source}

\* C9: the summarizer is called only for records at the first N places of the
\* adapter's list, at most once per record, at most min(N, number of records) times
\* per source.
C9_TopNBound ==
    /\ \A k \in 1 .. Len(sumLog) : sumLog[k].pos \in 1 .. counts[sumLog[k].source]
    /\ \A k, l \in 1 .. Len(sumLog) :
          (k # l /\ sumLog[k].source = sumLog[l].source) => sumLog[k].pos # sumLog[l].pos
    /\ \A s \in Sources :
          Cardinality(CallsFor(s)) <= Min(counts[s], Len(adapterOut[s]))

\* C9 witness: a finished run with more articles than N, the first summarized
C9_Witness ==
    /\ pc = "done"
    /\ counts.news = 1
    /\ Len(results.news) = 2
    /\ Cardinality(CallsFor("news")) = 1
    /\ HasText(results.news[2])

\* C10 as stated: every record past the first N of a source's result has no summary
\* field and no content_fetched field.
C10_BeyondTopNNoSummaryField ==
    \A s \in Sources :
        \A k \in 1 .. Len(results[s]) :
            k > counts[s] =>
                /\ ~HasField(results[s][k], "summary")
                /\ ~HasField(results[s][k], "content_fetched")

\* C10 amended: every record past the first N of a source's result is the record the
\* adapter returned, untouched: it has no content_fetched field, and no summary field
\* other than the feed's own summary that the press-release adapter puts on every record.
C10_BeyondTopNUntouched ==
    \A s \in Sources :
        \A k \in 1 .. Len(results[s]) :
            k > counts[s] =>
                /\ results[s][k] = adapterOut[s][k]
                /\ ~HasField(results[s][k], "content_fetched")
                /\ s # "pr" => ~HasField(results[s][k], "summary")
                /\ s = "pr" => results[s][k].summary \in {"", "feed summary"}

\* C10 witness: a finished run with the summarizer on, whose second article is past
\* N = 1 and unenriched while the first is enriched, and whose press releases (N = 0)
\* carry the feed's summary
C10_Witness ==
    /\ pc = "done"
    /\ summarizer
    /\ counts.news = 1
    /\ Len(results.news) = 2
    /\ HasField(results.news[1], "content_fetched")
    /\ ~HasField(results.news[2], "summary")
    /\ counts.pr = 0
    /\ Len(results.pr) = 2
    /\ results.pr[1].summary = "feed summary"

\* C15: summarize does not raise and makes one request per call; the record whose
\* call met an error has the error string as its summary; and when fetch_news_articles
\* has returned, every selected article with text was passed to summarize, also
\* those after the one whose call met an error.
C15_SummarizerErrorContained ==
    /\ raised # "APIError"
    /\ \A k \in 1 .. Len(sumLog) :
          /\ sumLog[k].raised = "none"
          /\ sumLog[k].requests = 1
          /\ sumLog[k].reply = "error" =>
                /\ Records(sumLog[k].source)[sumLog[k].pos].summary
                      = "Error generating summary"
                /\ Records(sumLog[k].source)[sumLog[k].pos].content_fetched
    /\ (pc \in {"print_summary", "done"} /\ summarizer) =>
          \A p \in 1 .. Min(counts.news, Len(results.news)) :
              HasText(results.news[p]) =>
                  \E k \in CallsFor("news") : sumLog[k].pos = p

\* C15 witness: a finished run whose first article's summarize call met an error and
\* whose second article was then summarized
C15_Witness ==
    /\ pc = "done"
    /\ summarizer
    /\ counts.news = 2
    /\ Len(results.news) = 2
    /\ \E k \in CallsFor("news") : sumLog[k].pos = 1 /\ sumLog[k].reply = "error"
    /\ results.news[1].summary = "Error generating summary"
    /\ results.news[2].summary = "Generated summary"

\* the place of a source in the order filings, press releases, news articles
Rank(source) == CASE source = "sec" -> 1 [] source = "pr" -> 2 [] source = "news" -> 3

\* the source whose fetch_* method run() is in
InProgress(source) == pc \in {FetchOf(source), source \o "_enrich"}

\* C22: run() makes its external calls one source after the other in the order
\* filings, press releases, news articles: along the calls made, the sources never
\* go back; a source's content fetches and summarizer calls follow its adapter call;
\* and while a source is in progress no call of a later source has been made.
C22_SequentialInOrder ==
    /\ \A k, l \in 1 .. Len(calls) :
          k < l => Rank(calls[k].source) <= Rank(calls[l].source)
    /\ \A k \in 1 .. Len(calls) :
          calls[k].kind # "adapter" =>
              \E j \in 1 .. k - 1 :
                  calls[j].kind = "adapter" /\ calls[j].source = calls[k].source
    /\ \A s \in Sources :
          InProgress(s) => \A k \in 1 .. Len(calls) : Rank(calls[k].source) <= Rank(s)

\* C22 witness: a finished run that called the three adapters in order and then
\* the summarizer for the first article
C22_Witness ==
    /\ pc = "done"
    /\ Len(calls) >= 4
    /\ [k \in 1 .. 3 |-> calls[k].source] = <<"sec", "pr", "news">>
    /\ calls[4] = ExternalCall("summarize", "news", 1)

\* C23: without a summarizer no content fetch and no summarizer call is made and
\* every stored record is the adapter's own; without a news key the news list is
\* empty; and in both cases the run is not aborted.
C23_ConfigFailureDisablesFeatureOnly ==
    /\ ~summarizer =>
          /\ fetchLog = {}
          /\ sumLog = <<>>
          /\ \A s \in Sources : results[s] \in {<<>>, adapterOut[s]}
          /\ pc # "aborted"
    /\ ~newsKey =>
          /\ results.news = <<>>
          /\ pc # "aborted"

\* C26: every summarizer call is for a record whose content was retrieved before it,
\* and the text it is given is what the retrieval returned ("c" in the model).
C26_ContentFetchedBeforeSummarize ==
    \A k \in 1 .. Len(sumLog) :
        /\ <<sumLog[k].source, sumLog[k].pos, "fetched">> \in fetchLog
        /\ sumLog[k].content = Chars("c")

\* a record without the two fields enrichment may set
Strip(record) ==
    [f \in DOMAIN record \ {"summary", "content_fetched"} |-> record[f]]

\* C27: the list being enriched and the list stored for a source have the records of
\* the adapter's list, in its order; a record differs from the adapter's at most in
\* summary and content_fetched, and not at all past the first N; a source whose
\* fetch_* method has returned has its list stored.
C27_AdapterOutputKeptIntact ==
    \A s \in Sources :
        /\ (Records(s) # <<>> \/ pc \in {"print_summary", "done"}) =>
              /\ Len(Records(s)) = Len(adapterOut[s])
              /\ \A k \in 1 .. Len(Records(s)) :
                    /\ Strip(Records(s)[k]) = Strip(adapterOut[s][k])
                    /\ k > counts[s] => Records(s)[k] = adapterOut[s][k]

\* C27 witness: a finished run that stored three lists, of which two articles with
\* N = 1: the first enriched, the second as the adapter returned it
C27_Witness ==
    /\ pc = "done"
    /\ summarizer
    /\ counts.news = 1
    /\ Len(adapterOut.news) = 2
    /\ Len(results.news) = 2
    /\ results.news[1] # adapterOut.news[1]
    /\ results.news[2] = adapterOut.news[2]
    /\ Len(results.pr) = 2

\* C30: content_fetched is true only on a record whose content was retrieved and
\* whose summary is what the summarizer returned for it; a record with
\* content_fetched has a summary; only the first N records have content_fetched.
C30_ContentFetchedMeansRetrieved ==
    \A s \in Sources :
        \A k \in 1 .. Len(Records(s)) :
            HasField(Records(s)[k], "content_fetched") =>
                /\ HasField(Records(s)[k], "summary")
                /\ k <= counts[s]
                /\ Records(s)[k].content_fetched =>
                      /\ <<s, k, "fetched">> \in fetchLog
                      /\ \E c \in CallsFor(s) :
                            /\ sumLog[c].pos = k
                            /\ sumLog[c].summary = Records(s)[k].summary

(***************************************************************************)
(* Properties of web_app, checked under SpecWeb                            *)
(***************************************************************************)
\* C21: whatever the interleaving of refreshes and reads, the values a read
\* endpoint has got from cached_data (its lists and last_updated) all come from one
\* refresh.
C21_ReadsSeeOneRefresh ==
    \A r \in Requests :
        \A j, k \in 1 .. Len(req[r].seen) :
            req[r].seen[j].value = req[r].seen[k].value

\* C29: a refresh_data in which a call raised has answered with status 'error', has
\* assigned no key of cached_data, and no value of cached_data, nor any value a read
\* has got, is of that refresh.
C29_FailedRefreshLeavesCache ==
    \A r \in Requests :
        /\ req[r].raised # "none" => req[r].status = "error"
        /\ req[r].status = "error" =>
              /\ req[r].wrote = {}
              /\ \A key \in CacheKeys : cached_data[key] # r
              /\ \A q \in Requests :
                    \A k \in 1 .. Len(req[q].seen) : req[q].seen[k].value # r

\* C29 witness: a refresh has filled the cache, the next refresh failed at its last
\* fetch, and the cache holds the first refresh's snapshot
C29_Witness ==
    /\ req[1].endpoint = "refresh_data"
    /\ req[1].status = "success"
    /\ req[2].endpoint = "refresh_data"
    /\ req[2].raised = "fetch_news_articles"
    /\ req[2].status = "error"
    /\ \A key \in CacheKeys : cached_data[key] = 1

(***************************************************************************)
(* Properties of repeated runs, checked under SpecRuns                     *)
(***************************************************************************)
\* C25: when a run() has returned, the result's timestamp is the time that run
\* started and each list holds what that run's adapter call produced for the
\* source, a source skipped in that run being empty.
C25_FreshResultEachRun ==
    pc = "done" =>
        /\ results.timestamp = started
        /\ \A s \in Sources :
              /\ Len(results[s]) = Len(adapterOut[s])
              /\ \A k \in 1 .. Len(results[s]) :
                    Strip(results[s][k]) = Strip(adapterOut[s][k])

====
